---- MODULE Spec2Model ----
(***************************************************************************)
(* A model of xml_tree::xmlTree (src/xml_tree/xml_tree.hpp): the item tree *)
(* built from a schema document, the batches of values ingested into it,   *)
(* the lookups and the deletion of a batch.                                *)
(*                                                                         *)
(* Representation.                                                         *)
(*  - A C string is a sequence of one-character strings; a null pointer to *)
(*    a string (an attribute that is absent) is NULL.                      *)
(*  - A uint32_t or an int is its bit pattern: a little-endian sequence of *)
(*    UINT32_NIBBLES 4-bit digits.  A long is LongNibbles of them, the     *)
(*    width being the build's (long_bits).                                 *)
(*  - A pointer to a Tree_Item_t is the path of child positions that leads *)
(*    to it from s_rootItem (<<>> is &s_rootItem); no item is NULL_ITEM.   *)
(*  - An xml node is [index, name, other, kids]: its "index" and "name"    *)
(*    attributes, whether it has children that are not "Content" nodes,    *)
(*    and its "Content" children in document order.                        *)
(***************************************************************************)
EXTENDS Integers, Sequences, FiniteSets, TLC

VARIABLES
  long_bits,       \* width of long in the build: 32 (ILP32, LLP64) or 64 (LP64)
  xml_name,        \* the schema document given to build_tree_fromXmlFile
  pc,              \* position of the caller / of the running handler
  call,            \* the public operation called last (or running)
  ret,             \* ret of the running handler; its return value once it returned
  s_rootItem,      \* xmlTree::s_rootItem
  set_batchIndex,  \* xmlTree::set_batchIndex
  batch_index,     \* add_batch_fromXmlFile: batch_index of the batch node at hand
  push_ret,        \* what _push_memberVector returned to line 266 (ERR_None: nothing yet)
  n_batchIndex,    \* delete_oneBatch: its argument
  okBatches        \* history: indices of batches ingested with success, not deleted since

vars == <<long_bits, xml_name, pc, call, ret, s_rootItem, set_batchIndex,
          batch_index, push_ret, n_batchIndex, okBatches>>

----------------------------------------------------------------------------
(* Program constants. *)

ERR_None == 0
ERR_OverLayer == 1
ERR_NullPointer == 2
ERR_OverItem == 3
ERR_NoXmlNode == 4
ERR_NoXmlAttr == 5
ERR_IllegalIndex == 6
ERR_IllegalId == 7
ERR_UsedIndex == 8
ERR_UnregisteredIndex == 9
ERR_UnregisteredItem == 10

VAL_None == 0
VAL_Int == 1
VAL_String == 2
VAL_Double == 3
VAL_NUM == 4

C_nMaxLayer == 8
C_nMaxItem == 15
C_nCrorNum == 4
FORMAT_Item_Id == 16
UINT32_NIBBLES == 32 \div C_nCrorNum
LIMB == 256 * 256

NULL == <<"NULL">>
NUL == "\\0"

C_arrValTypeStr == << <<>>, <<"i","n","t">>, <<"s","t","r","i","n","g">>, <<"d","o","u","b","l","e">> >>

----------------------------------------------------------------------------
(* Machine integers. *)

RECURSIVE BitOp(_, _, _, _)
\* The bitwise combination of the naturals a and b over n bits; orOp: | else &.
BitOp(a, b, n, orOp) ==
  IF n = 0 \/ (a = 0 /\ b = 0) THEN 0
  ELSE LET x == a % 2
           y == b % 2
           z == IF orOp THEN (IF x + y > 0 THEN 1 ELSE 0) ELSE x * y
       IN  z + 2 * BitOp(a \div 2, b \div 2, n - 1, orOp)

IntOr(a, b) == BitOp(a, b, 31, TRUE)

Zero(n) == [i \in 1..n |-> 0]

\* The uint32_t holding the natural k < 2^31.
U32(k) == [i \in 1..UINT32_NIBBLES |-> (k \div (FORMAT_Item_Id ^ (i - 1))) % FORMAT_Item_Id]

IsZero(w) == \A i \in 1..Len(w) : w[i] = 0

\* w <= C_nMaxItem, for an unsigned w.
LeMaxItem(w) == w[1] <= C_nMaxItem /\ \A i \in 2..Len(w) : w[i] = 0

WordOr(a, b) == [i \in 1..Len(a) |-> BitOp(a[i], b[i], C_nCrorNum, TRUE)]

WordAnd(a, b) == [i \in 1..Len(a) |-> BitOp(a[i], b[i], C_nCrorNum, FALSE)]

\* w << bits and w >> bits on a uint32_t; every shift of the program is by a
\* multiple of C_nCrorNum bits, below the width.
ShiftLeft(w, bits) ==
  LET k == bits \div C_nCrorNum
  IN  [i \in 1..Len(w) |-> IF i <= k THEN 0 ELSE w[i - k]]

ShiftRight(w, bits) ==
  LET k == bits \div C_nCrorNum
  IN  [i \in 1..Len(w) |-> IF i + k <= Len(w) THEN w[i + k] ELSE 0]

RECURSIVE AddCarry(_, _)
\* w + c on the digits of w, the carry out of the top digit dropped.
AddCarry(w, c) ==
  IF w = <<>> THEN <<>>
  ELSE LET t == Head(w) + c
       IN  <<t % FORMAT_Item_Id>> \o AddCarry(Tail(w), t \div FORMAT_Item_Id)

\* w - 1, for w # 0.
RECURSIVE Decrement(_)
Decrement(w) ==
  IF w = <<>> THEN <<>>
  ELSE IF Head(w) > 0 THEN <<Head(w) - 1>> \o Tail(w)
  ELSE <<FORMAT_Item_Id - 1>> \o Decrement(Tail(w))

\* Two's complement negation.
Negate(w) == AddCarry([i \in 1..Len(w) |-> (FORMAT_Item_Id - 1) - w[i]], 1)

LongNibbles == long_bits \div C_nCrorNum

LONG_MAX == [i \in 1..LongNibbles |-> IF i = LongNibbles THEN 7 ELSE FORMAT_Item_Id - 1]

LONG_MIN == [i \in 1..LongNibbles |-> IF i = LongNibbles THEN 8 ELSE 0]

\* static_cast<uint32_t>(long), and the conversion of a long to int.
ToU32(l) == SubSeq(l, 1, UINT32_NIBBLES)

----------------------------------------------------------------------------
(* strtol, strtod, strcmp, memcmp. *)

DigitChars == <<"0", "1", "2", "3", "4", "5", "6", "7", "8", "9">>

IsDigit(c) == \E i \in 1..10 : DigitChars[i] = c

DigitVal(c) == (CHOOSE i \in 1..10 : DigitChars[i] = c) - 1

IsSpace(c) == c \in {" ", "\t", "\n", "\r"}

RECURSIVE SkipSpace(_)
SkipSpace(s) == IF s # <<>> /\ IsSpace(Head(s)) THEN SkipSpace(Tail(s)) ELSE s

RECURSIVE MulAdd(_, _, _)
\* The 16-bit limbs of w * base + c followed by the carry out of the top limb.
MulAdd(w, c, base) ==
  IF w = <<>> THEN <<c>>
  ELSE LET t == Head(w) * base + c
       IN  <<t % LIMB>> \o MulAdd(Tail(w), t \div LIMB, base)

RECURSIVE Accumulate(_, _, _)
\* The magnitude of the leading decimal digits of s as an unsigned number of
\* Len(acc.mag) limbs; acc.sat once it does not fit.
Accumulate(s, acc, base) ==
  IF s = <<>> \/ ~IsDigit(Head(s)) THEN acc
  ELSE LET m == MulAdd(acc.mag, DigitVal(Head(s)), base)
           n == Len(acc.mag)
       IN  Accumulate(Tail(s), [mag |-> SubSeq(m, 1, n), sat |-> acc.sat \/ m[n + 1] # 0], base)

\* The 4-bit digits of a number given by its 16-bit limbs.
Nibbles(limbs) ==
  [i \in 1..(4 * Len(limbs)) |->
     (limbs[((i - 1) \div 4) + 1] \div (FORMAT_Item_Id ^ ((i - 1) % 4))) % FORMAT_Item_Id]

\* strtol(s, &p_char, base) for base 10: a long.
strtol(s, base) ==
  LET t == SkipSpace(s)
      neg == t # <<>> /\ Head(t) = "-"
      u == IF t # <<>> /\ Head(t) \in {"-", "+"} THEN Tail(t) ELSE t
      acc == Accumulate(u, [mag |-> Zero(long_bits \div 16), sat |-> FALSE], base)
      Clamp(sat, mag) ==
        LET top == mag[LongNibbles]
            overMax == sat \/ top >= 8
            overMin == sat \/ top > 8 \/ (top = 8 /\ ~IsZero(SubSeq(mag, 1, LongNibbles - 1)))
        IN  IF neg THEN (IF overMin THEN LONG_MIN ELSE Negate(mag))
            ELSE (IF overMax THEN LONG_MAX ELSE mag)
  IN  Clamp(acc.sat, Nibbles(acc.mag))

RECURSIVE DecimalNat(_, _)
DecimalNat(s, acc) ==
  IF s = <<>> \/ ~IsDigit(Head(s)) THEN acc
  ELSE DecimalNat(Tail(s), acc * 10 + DigitVal(Head(s)))

Lower(c) == IF c = "N" THEN "n" ELSE IF c = "A" THEN "a" ELSE c

\* strtod(s, &p_char) on strings of digits, signs, blanks and letters: a
\* double, as [nan, neg, num]; "nan" in any case is a NaN, no digits is 0.
strtod(s) ==
  LET t == SkipSpace(s)
      neg == t # <<>> /\ Head(t) = "-"
      u == IF t # <<>> /\ Head(t) \in {"-", "+"} THEN Tail(t) ELSE t
      isNan == Len(u) >= 3 /\ <<Lower(u[1]), Lower(u[2]), Lower(u[3])>> = <<"n", "a", "n">>
      num == DecimalNat(u, 0)
  IN  IF isNan THEN [nan |-> TRUE, neg |-> FALSE, num |-> 0]
      ELSE [nan |-> FALSE, neg |-> neg, num |-> num]

\* strcmp(a, b) == 0
StrEq(a, b) == a = b

\* !memcmp(a, b, n) on the buffers a and b, read up to the first difference.
MemEq(a, b, n) ==
  \A i \in 1..n :
    /\ i <= Len(a)
    /\ i <= Len(b)
    /\ a[i] = b[i]

----------------------------------------------------------------------------
(* Tree_Val_t, Tree_Member_t, Tree_Item_t. *)

\* A Tree_Val_t whose union and length are not set.
NoVal == [e_type |-> VAL_None, val_int |-> Zero(UINT32_NIBBLES),
          val_double |-> [nan |-> FALSE, neg |-> FALSE, num |-> 0],
          val_string |-> <<>>, n_memLen |-> 0]

NewItem(id, name) == [n_id |-> id, str_name |-> name, l_member |-> <<>>, v_childItem |-> <<>>]

RootItem == NewItem(Zero(UINT32_NIBBLES), <<>>)

NULL_ITEM == <<0>>

RECURSIVE ItemAt(_, _)
\* The item a pointer points to.
ItemAt(item, path) ==
  IF path = <<>> THEN item ELSE ItemAt(item.v_childItem[Head(path)], Tail(path))

RECURSIVE ItemPaths(_)
\* The pointers to the items of the tree under item, item included.
ItemPaths(item) ==
  {<<>>} \cup UNION {{<<k>> \o p : p \in ItemPaths(item.v_childItem[k])} :
                      k \in 1..Len(item.v_childItem)}

----------------------------------------------------------------------------
(* Schema construction. *)

first_node(node) == IF node.kids = <<>> /\ ~node.other THEN NULL ELSE <<"node">>

RECURSIVE _make_itemTree(_, _, _)
RECURSIVE _make_itemTree_loop(_, _, _, _)

\* Lines 461-466 for a legal child: sub is what the call of line 466 returns.
_make_itemTree_legal(st, item_index, sub) ==
  [ret |-> ERR_IllegalIndex,
   last_err |-> IntOr(st.last_err, sub.ret),
   cnt_item |-> st.cnt_item + 1,
   cnt_legalItem |-> st.cnt_legalItem + 1,
   index_set |-> st.index_set \cup {item_index},
   v_childItem |-> Append(st.v_childItem, sub.item),
   crash |-> sub.crash]

\* One pass of the for loop of _make_itemTree over the "Content" children
\* left, kids.  st holds the locals and item_parent's v_childItem so far.
_make_itemTree_loop(kids, st, item_parent_id, n_layer) ==
  IF kids = <<>> \/ st.crash THEN st
  ELSE IF st.cnt_item > C_nMaxItem THEN [st EXCEPT !.ret = ERR_OverItem]
  ELSE
    LET child_node == Head(kids)
        item_index == ToU32(strtol(child_node.index, 10))
        legal == /\ ~IsZero(item_index)
                 /\ LeMaxItem(item_index)
                 /\ item_index \notin st.index_set
        child_item == NewItem(WordOr(ShiftLeft(item_index, C_nCrorNum * n_layer), item_parent_id),
                              child_node.name)
        next ==
          IF child_node.index = NULL
            THEN [st EXCEPT !.ret = ERR_NoXmlAttr, !.cnt_item = @ + 1]
          ELSE IF ~legal
            THEN [st EXCEPT !.ret = ERR_IllegalIndex, !.cnt_item = @ + 1]
          ELSE IF child_node.name = NULL
            THEN [st EXCEPT !.crash = TRUE]
          ELSE _make_itemTree_legal(st, item_index,
                                    _make_itemTree(<<child_node>>, child_item, n_layer + 1))
    IN  _make_itemTree_loop(Tail(kids), next, item_parent_id, n_layer)

\* _make_itemTree(node_parent, item_parent, n_layer): [ret, item, crash], the
\* return value, item_parent as it leaves it, and whether it dereferenced
\* the null attribute pointer of line 460.
_make_itemTree(node_parent, item_parent, n_layer) ==
  IF node_parent = <<>>
    THEN [ret |-> ERR_NullPointer, item |-> item_parent, crash |-> FALSE]
  ELSE IF ~(n_layer < C_nMaxLayer)
    THEN [ret |-> ERR_OverLayer, item |-> item_parent, crash |-> FALSE]
  ELSE IF first_node(node_parent[1]) = NULL /\ n_layer > 0
    THEN [ret |-> ERR_None, item |-> item_parent, crash |-> FALSE]
  ELSE
    LET init == [ret |-> ERR_NoXmlNode, last_err |-> ERR_None,
                 cnt_item |-> 0, cnt_legalItem |-> 0, index_set |-> {},
                 v_childItem |-> item_parent.v_childItem, crash |-> FALSE]
        out(st) == [ret |-> IF st.cnt_item # 0 /\ st.cnt_item = st.cnt_legalItem
                              THEN st.last_err ELSE st.ret,
                    item |-> [item_parent EXCEPT !.v_childItem = st.v_childItem],
                    crash |-> st.crash]
    IN  out(_make_itemTree_loop(node_parent[1].kids, init, item_parent.n_id, n_layer))

----------------------------------------------------------------------------
(* Lookups of items. *)

RECURSIVE _search_item_byId_loop(_, _, _, _)
_search_item_byId_loop(root, temp_path, temp_id, n_id) ==
  IF IsZero(temp_id) THEN NULL_ITEM
  ELSE
    LET index == WordAnd(temp_id, U32(C_nMaxItem))[1]
        temp_item == ItemAt(root, temp_path)
    IN  IF index = 0 \/ index > Len(temp_item.v_childItem) THEN NULL_ITEM
        ELSE IF ItemAt(root, Append(temp_path, index)).n_id = n_id THEN Append(temp_path, index)
        ELSE _search_item_byId_loop(root, Append(temp_path, index), ShiftRight(temp_id, C_nCrorNum), n_id)

_search_item_byId(root, n_id) ==
  IF IsZero(n_id) THEN <<>> ELSE _search_item_byId_loop(root, <<>>, n_id, n_id)

get_itemName(root, n_itemId) ==
  LET item == _search_item_byId(root, n_itemId)
  IN  IF item # NULL_ITEM /\ ItemAt(root, item).str_name # <<>>
        THEN ItemAt(root, item).str_name
      ELSE NULL

RECURSIVE _search_item_byName_loop(_, _, _)
RECURSIVE _search_item_byName(_, _)

\* The loop of _search_item_byName with what the search below a child found
\* kept when the child has the name too.
_search_item_byName_deepFirst(item_parent, k, str_itemName) ==
  IF k > Len(item_parent.v_childItem) THEN NULL_ITEM
  ELSE
    LET child_item == item_parent.v_childItem[k]
        deep == _search_item_byName(child_item, str_itemName)
        ret_item == IF deep # NULL_ITEM THEN <<k>> \o deep
                    ELSE IF StrEq(child_item.str_name, str_itemName) THEN <<k>>
                    ELSE NULL_ITEM
    IN  IF ret_item # NULL_ITEM THEN ret_item
        ELSE _search_item_byName_loop(item_parent, k + 1, str_itemName)

\* The for loop of _search_item_byName from the k-th child of item_parent on.
_search_item_byName_loop(item_parent, k, str_itemName) ==
  IF k > Len(item_parent.v_childItem) THEN NULL_ITEM
  ELSE
    LET child_item == item_parent.v_childItem[k]
        deep == _search_item_byName(child_item, str_itemName)
        ret_item == IF StrEq(child_item.str_name, str_itemName) THEN <<k>>
                    ELSE IF deep # NULL_ITEM THEN <<k>> \o deep
                    ELSE NULL_ITEM
    IN  IF ret_item # NULL_ITEM THEN ret_item
        ELSE _search_item_byName_loop(item_parent, k + 1, str_itemName)

\* _search_item_byName(item_parent, str_itemName): the pointer, from
\* item_parent, to the item found.
_search_item_byName(item_parent, str_itemName) ==
  _search_item_byName_loop(item_parent, 1, str_itemName)

RECURSIVE _get_parentId_loop(_, _)
\* The while loop of _get_parentId: id_child and cror when it ends.
_get_parentId_loop(id_child, cror) ==
  IF IsZero(id_child) THEN [id_child |-> id_child, cror |-> cror]
  ELSE _get_parentId_loop(ShiftRight(id_child, C_nCrorNum), cror + 1)

_get_parentId(id_child) ==
  IF ~IsZero(id_child)
    THEN LET l == _get_parentId_loop(id_child, 0)
         IN  WordAnd(l.id_child, Decrement(ShiftLeft(U32(1), C_nCrorNum * (l.cror - 1))))
  ELSE Zero(UINT32_NIBBLES)

----------------------------------------------------------------------------
(* Values. *)

\* Tree_Val_t::operator=: *this after this = val.
ValAssign(this, val) ==
  IF val.e_type = VAL_String
    THEN [this EXCEPT !.e_type = val.e_type, !.n_memLen = val.n_memLen,
                      !.val_string = SubSeq(val.val_string, 1, val.n_memLen)]
  ELSE IF val.e_type = VAL_Int
    THEN [this EXCEPT !.e_type = val.e_type, !.val_int = val.val_int]
  ELSE IF val.e_type = VAL_Double
    THEN [this EXCEPT !.e_type = val.e_type, !.val_double = val.val_double]
  ELSE [this EXCEPT !.e_type = val.e_type]

\* x == y on doubles.
DoubleEq(x, y) == ~x.nan /\ ~y.nan /\ x.num = y.num /\ (x.num = 0 \/ x.neg = y.neg)

\* Tree_Val_t::operator==: the values this == val can return.  With equal
\* tags other than the three of the switch it returns without a value.
ValEq(this, val) ==
  IF this.e_type = val.e_type
    THEN IF this.e_type = VAL_String
           THEN {MemEq(this.val_string, val.val_string, val.n_memLen)}
         ELSE IF this.e_type = VAL_Int THEN {this.val_int = val.val_int}
         ELSE IF this.e_type = VAL_Double THEN {DoubleEq(this.val_double, val.val_double)}
         ELSE BOOLEAN
  ELSE {FALSE}

_parse_strToType(str_type) ==
  LET hits == {m \in 0..(VAL_NUM - 1) : StrEq(C_arrValTypeStr[m + 1], str_type)}
  IN  IF hits = {} THEN VAL_NUM ELSE CHOOSE m \in hits : \A n \in hits : m <= n

\* _set_memberVal(str_val, s_val): s_val as it leaves it.
_set_memberVal(str_val, s_val) ==
  IF s_val.e_type = VAL_String
    THEN [s_val EXCEPT !.n_memLen = Len(str_val) + 1, !.val_string = Append(str_val, NUL)]
  ELSE IF s_val.e_type = VAL_Int
    THEN [s_val EXCEPT !.val_int = ToU32(strtol(str_val, 10))]
  ELSE IF s_val.e_type = VAL_Double
    THEN [s_val EXCEPT !.val_double = strtod(str_val)]
  ELSE s_val

\* _get_memberVal(item_member, index_batch, s_val): [ret, s_val].
_get_memberVal(item_member, index_batch, s_val) ==
  LET hits == {i \in 1..Len(item_member.l_member) :
                 index_batch \in item_member.l_member[i].set_batchIndex}
  IN  IF hits # {}
        THEN [ret |-> ERR_None,
              s_val |-> ValAssign(s_val, item_member.l_member[CHOOSE i \in hits : \A j \in hits : i <= j].s_val)]
      ELSE [ret |-> ERR_UnregisteredIndex, s_val |-> s_val]

----------------------------------------------------------------------------
(* Ingestion of one member node, deletion of a batch. *)

RECURSIVE SetItem(_, _, _)
\* The tree under item with the item at path replaced.
SetItem(item, path, new) ==
  IF path = <<>> THEN new
  ELSE [item EXCEPT !.v_childItem[Head(path)] = SetItem(@, Tail(path), new)]

\* std::find_if of lines 609-612: the positions it can return, Len + 1 for
\* end(), given what operator== can return.
find_if(l_member, temp_val) ==
  {i \in 1..(Len(l_member) + 1) :
     /\ i <= Len(l_member) => TRUE \in ValEq(l_member[i].s_val, temp_val)
     /\ \A j \in 1..(i - 1) : FALSE \in ValEq(l_member[j].s_val, temp_val)}

\* Lines 613-624 with the new member put at the head of the list.
StoreMember_atHead(l_member, iter, temp_val, index_batch) ==
  IF iter = Len(l_member) + 1
    THEN <<[s_val |-> ValAssign(NoVal, temp_val), set_batchIndex |-> {index_batch}]>> \o l_member
  ELSE [l_member EXCEPT ![iter].set_batchIndex = @ \cup {index_batch}]

\* Lines 613-624: l_member after the value is stored for index_batch, iter
\* being what find_if returned.
StoreMember(l_member, iter, temp_val, index_batch) ==
  IF iter = Len(l_member) + 1
    THEN Append(l_member, [s_val |-> ValAssign(NoVal, temp_val), set_batchIndex |-> {index_batch}])
  ELSE [l_member EXCEPT ![iter].set_batchIndex = @ \cup {index_batch}]

\* _push_memberVector without the check of lines 595-599.
_push_memberVector_noUsedIndex(root, node, index_batch) ==
  IF ~(~IsZero(index_batch)) THEN {[ret |-> ERR_IllegalIndex, root |-> root]}
  ELSE IF node.name = NULL THEN {[ret |-> ERR_NoXmlAttr, root |-> root]}
  ELSE
    LET member_item == _search_item_byName(root, node.name)
    IN  IF member_item = NULL_ITEM THEN {[ret |-> ERR_IllegalId, root |-> root]}
        ELSE IF node.type = NULL THEN {[ret |-> ERR_NoXmlAttr, root |-> root]}
        ELSE
          LET item == ItemAt(root, member_item)
              temp_val == _set_memberVal(node.text, [NoVal EXCEPT !.e_type = _parse_strToType(node.type)])
          IN  {[ret |-> ERR_None,
                root |-> SetItem(root, member_item,
                                 [item EXCEPT !.l_member = StoreMember(@, iter, temp_val, index_batch)])] :
                 iter \in find_if(item.l_member, temp_val)}

\* The body of _push_memberVector (lines 584-624) for one member node that
\* is not null: the set of [ret, root] it can end with, ret being ERR_None
\* where it goes on to the next sibling (line 625).
_push_memberVector(root, node, index_batch) ==
  IF ~(~IsZero(index_batch)) THEN {[ret |-> ERR_IllegalIndex, root |-> root]}
  ELSE IF node.name = NULL THEN {[ret |-> ERR_NoXmlAttr, root |-> root]}
  ELSE
    LET member_item == _search_item_byName(root, node.name)
    IN  IF ~(/\ member_item # NULL_ITEM
             /\ _search_item_byId(root, _get_parentId(ItemAt(root, member_item).n_id)) # NULL_ITEM)
          THEN {[ret |-> ERR_IllegalId, root |-> root]}
        ELSE IF _get_memberVal(ItemAt(root, member_item), index_batch, NoVal).ret # ERR_UnregisteredIndex
          THEN {[ret |-> ERR_UsedIndex, root |-> root]}
        ELSE IF node.type = NULL THEN {[ret |-> ERR_NoXmlAttr, root |-> root]}
        ELSE
          LET item == ItemAt(root, member_item)
              temp_val == _set_memberVal(node.text, [NoVal EXCEPT !.e_type = _parse_strToType(node.type)])
          IN  {[ret |-> ERR_None,
                root |-> SetItem(root, member_item,
                                 [item EXCEPT !.l_member = StoreMember(@, iter, temp_val, index_batch)])] :
                 iter \in find_if(item.l_member, temp_val)}

\* Lines 266-270 with the batch index inserted whatever was returned.
add_batch_record_always(pushed, set, index) ==
  LET r == IF pushed # ERR_None THEN 1 ELSE 0
  IN  [ret |-> r, set_batchIndex |-> set \cup {index}, break |-> r # 0]

\* Lines 266-270: what add_batch_fromXmlFile does with what _push_memberVector
\* returned: [ret, set_batchIndex, break].
add_batch_record(pushed, set, index) ==
  LET r == IF pushed # ERR_None THEN 1 ELSE 0
  IN  IF r # 0 THEN [ret |-> r, set_batchIndex |-> set, break |-> TRUE]
      ELSE [ret |-> r, set_batchIndex |-> set \cup {index}, break |-> FALSE]

\* _get_batchIndex(node_batch), given the "index" attribute of the node.
_get_batchIndex(attr) ==
  IF attr # NULL THEN ToU32(strtol(attr, 10)) ELSE Zero(UINT32_NIBBLES)

RECURSIVE _delete_members_loop(_, _, _, _)

\* One pass of the loop of lines 735-760 that keeps the member whose set it
\* emptied.
_delete_members_loop_keepEmptied(rest, n_bathIndex, is_delete, kept) ==
  IF rest = <<>> THEN kept
  ELSE
    LET member == Head(rest)
        erased == [member EXCEPT !.set_batchIndex = @ \ {n_bathIndex}]
    IN  _delete_members_loop(Tail(rest), n_bathIndex, is_delete, Append(kept, erased))

\* The for loop of lines 735-760 over the members left, rest: the list kept.
_delete_members_loop(rest, n_bathIndex, is_delete, kept) ==
  IF rest = <<>> THEN kept
  ELSE
    LET member == Head(rest)
        found == n_bathIndex \in member.set_batchIndex
        erased == [member EXCEPT !.set_batchIndex = @ \ {n_bathIndex}]
        now == IF found THEN erased ELSE member
        del == is_delete \/ (found /\ erased.set_batchIndex = {})
    IN  _delete_members_loop(Tail(rest), n_bathIndex, del,
                             IF del THEN kept ELSE Append(kept, now))

\* _delete_membersOfBatch without the descent of lines 762-766.
_delete_membersOfBatch_noDescent(item_cur, n_bathIndex) ==
  [item_cur EXCEPT !.l_member = _delete_members_loop(@, n_bathIndex, FALSE, <<>>)]

RECURSIVE _delete_membersOfBatch(_, _)
\* _delete_membersOfBatch(item_cur, n_bathIndex): item_cur as it leaves it.
_delete_membersOfBatch(item_cur, n_bathIndex) ==
  [item_cur EXCEPT
     !.l_member = _delete_members_loop(@, n_bathIndex, FALSE, <<>>),
     !.v_childItem = [k \in 1..Len(@) |-> _delete_membersOfBatch(@[k], n_bathIndex)]]

\* delete_oneBatch with the members deleted before the index is looked up.
delete_oneBatch_deleteFirst(root, set, index) ==
  [ret |-> IF index \in set THEN 0 ELSE ERR_UnregisteredIndex,
   root |-> _delete_membersOfBatch(root, index),
   set_batchIndex |-> set \ {index}]

\* delete_oneBatch without the call of _delete_membersOfBatch of line 385.
delete_oneBatch_eraseOnly(root, set, index) ==
  IF index \in set
    THEN [ret |-> 0, root |-> root, set_batchIndex |-> set \ {index}]
  ELSE [ret |-> ERR_UnregisteredIndex, root |-> root, set_batchIndex |-> set]

\* delete_oneBatch(n_batchIndex): [ret, root, set_batchIndex].
delete_oneBatch_result(root, set, index) ==
  IF index \in set
    THEN [ret |-> 0, root |-> _delete_membersOfBatch(root, index), set_batchIndex |-> set \ {index}]
  ELSE [ret |-> ERR_UnregisteredIndex, root |-> root, set_batchIndex |-> set]

----------------------------------------------------------------------------
(* Queries: the output maps are functions from their keys. *)

\* std::map::insert of the pair (key, val): a key the map has keeps its
\* value.
map_insert(m, key, val) ==
  IF key \in DOMAIN m THEN m
  ELSE [k \in DOMAIN m \cup {key} |-> IF k = key THEN val ELSE m[k]]

RECURSIVE _get_membersOfBatch(_, _, _)
RECURSIVE _get_membersOfBatch_loop(_, _, _, _)

\* The for loop of lines 706-710 from the k-th child of item_cur on.
_get_membersOfBatch_loop(item_cur, k, index_batch, m_batch) ==
  IF k > Len(item_cur.v_childItem) THEN m_batch
  ELSE _get_membersOfBatch_loop(item_cur, k + 1, index_batch,
         _get_membersOfBatch(item_cur.v_childItem[k], index_batch, m_batch))

\* _get_membersOfBatch with an entry only for the items that hold a value.
_get_membersOfBatch_onlyHeld(item_cur, index_batch, m_batch) ==
  LET got == _get_memberVal(item_cur, index_batch, NoVal)
  IN  _get_membersOfBatch_loop(item_cur, 1, index_batch,
        IF got.ret = ERR_None THEN map_insert(m_batch, item_cur.str_name, got.s_val)
        ELSE m_batch)

\* _get_membersOfBatch(item_cur, n_batchIndex, m_batch): m_batch as it
\* leaves it.
_get_membersOfBatch(item_cur, index_batch, m_batch) ==
  LET new_val == _get_memberVal(item_cur, index_batch, NoVal).s_val
  IN  _get_membersOfBatch_loop(item_cur, 1, index_batch,
        map_insert(m_batch, item_cur.str_name, new_val))

\* get_oneBatchValue(n_batchIndex, m_batch): [ret, m_batch].
get_oneBatchValue(root, set, index_batch, m_batch) ==
  IF index_batch \in set
    THEN [ret |-> ERR_None, m_batch |-> _get_membersOfBatch(root, index_batch, m_batch)]
  ELSE [ret |-> ERR_UnregisteredIndex, m_batch |-> m_batch]

RECURSIVE _get_membersOfItem_indices(_, _, _)

\* The for loop of lines 719-726 left after its first pass.
_get_membersOfItem_oneIndex(item_cur, indices, m_item) ==
  IF indices = {} THEN m_item
  ELSE LET index_batch == CHOOSE b \in indices : TRUE
       IN  map_insert(m_item, index_batch, _get_memberVal(item_cur, index_batch, NoVal).s_val)

\* The for loop of lines 719-726 over the batch indices left of one member.
\* The keys of one set differ, so the order they are taken in does not
\* change the map.
_get_membersOfItem_indices(item_cur, indices, m_item) ==
  IF indices = {} THEN m_item
  ELSE LET index_batch == CHOOSE b \in indices : TRUE
           new_val == _get_memberVal(item_cur, index_batch, NoVal).s_val
       IN  _get_membersOfItem_indices(item_cur, indices \ {index_batch},
                                      map_insert(m_item, index_batch, new_val))

RECURSIVE _get_membersOfItem_loop(_, _, _)
\* The for loop of lines 716-727 from the k-th member of item_cur on.
_get_membersOfItem_loop(item_cur, k, m_item) ==
  IF k > Len(item_cur.l_member) THEN m_item
  ELSE _get_membersOfItem_loop(item_cur, k + 1,
         _get_membersOfItem_indices(item_cur, item_cur.l_member[k].set_batchIndex, m_item))

\* _get_membersOfItem(item_cur, m_item): m_item as it leaves it.
_get_membersOfItem(item_cur, m_item) == _get_membersOfItem_loop(item_cur, 1, m_item)

\* get_oneItemValue(str_itemName, m_item): [ret, m_item].
get_oneItemValue(root, str_itemName, m_item) ==
  LET item == _search_item_byName(root, str_itemName)
  IN  IF item # NULL_ITEM
        THEN [ret |-> ERR_None, m_item |-> _get_membersOfItem(ItemAt(root, item), m_item)]
      ELSE [ret |-> ERR_UnregisteredItem, m_item |-> m_item]

----------------------------------------------------------------------------
(* Documents. *)

Node(index, name, other, kids) == [index |-> index, name |-> name, other |-> other, kids |-> kids]

Doc(kids) == <<Node(NULL, NULL, FALSE, kids)>>

MaxNodes == 3
MaxSiblings == 3
MaxDepth == 9

BigIndex == <<"4", "2", "9", "4", "9", "6", "7", "2", "9", "7">>

ForestIndexAttrs == {<<"1">>, <<"2">>, NULL}
RowIndexAttrs == {<<"1">>, <<"2">>, <<"0">>, <<"1", "6">>, BigIndex, NULL}
ChainIndexAttrs == {<<"1">>, <<"2">>}
ForestNameAttrs == {<<"a">>, <<"b">>}
RowNameAttrs == {<<"a">>, NULL}

RECURSIVE ForestsN(_)
\* The forests of exactly n nodes.
ForestsN(n) ==
  IF n = 0 THEN {<<>>}
  ELSE UNION {{<<Node(i, nm, FALSE, k)>> \o r :
                 i \in ForestIndexAttrs, nm \in ForestNameAttrs,
                 k \in ForestsN(s - 1), r \in ForestsN(n - s)} : s \in 1..n}

RECURSIVE RowsN(_)
\* The rows of n childless siblings.
RowsN(n) ==
  IF n = 0 THEN {<<>>}
  ELSE {<<Node(i, nm, FALSE, <<>>)>> \o r : i \in RowIndexAttrs, nm \in RowNameAttrs, r \in RowsN(n - 1)}

RECURSIVE ChainsN(_)
\* The chains of n nested nodes.
ChainsN(n) ==
  IF n = 0 THEN {<<>>}
  ELSE {<<Node(i, <<"a">>, FALSE, k)>> : i \in ChainIndexAttrs, k \in ChainsN(n - 1)}

\* The decimal numeral of k, a number of 1..99.
Numeral(k) ==
  IF k < 10 THEN <<DigitChars[k + 1]>>
  ELSE <<DigitChars[(k \div 10) + 1], DigitChars[(k % 10) + 1]>>

MaxWide == C_nMaxItem + 2

\* A row of n childless siblings, the first C_nMaxItem of them with the
\* indices 1..C_nMaxItem, the later ones with the index extra.
WideRow(n, extra) ==
  [k \in 1..n |-> Node(Numeral(IF k <= C_nMaxItem THEN k ELSE extra), <<"a">>, FALSE, <<>>)]

\* The wide documents: a row of C_nMaxItem..MaxWide siblings, at the top
\* level or below a single top-level node.
WideDocs ==
  UNION {{Doc(WideRow(n, extra)),
          Doc(<<Node(<<"1">>, <<"b">>, FALSE, WideRow(n, extra))>>)} :
           n \in C_nMaxItem..MaxWide, extra \in {1, C_nMaxItem + 1}}

\* The leaf documents: one top-level node, alone or with one nested node,
\* and a root without item nodes; each node with or without children that
\* are not item nodes (text, other tags).
LeafDocs ==
  {<<Node(NULL, NULL, o, <<>>)>> : o \in BOOLEAN}
    \cup {Doc(<<Node(<<"1">>, <<"a">>, o, <<>>)>>) : o \in BOOLEAN}
    \cup {Doc(<<Node(<<"1">>, <<"a">>, o[1], <<Node(<<"1">>, <<"b">>, o[2], <<>>)>>)>>) :
            o \in BOOLEAN \X BOOLEAN}

\* The schema documents: the forests, rows and chains up to the bounds, the
\* wide and the leaf documents.
SchemaDocs(doc) ==
  \/ \E n \in 0..MaxNodes : doc \in {Doc(f) : f \in ForestsN(n)}
  \/ \E n \in 1..MaxSiblings : doc \in {Doc(f) : f \in RowsN(n)}
  \/ \E n \in 1..MaxDepth : doc \in {Doc(f) : f \in ChainsN(n)}
  \/ doc \in WideDocs
  \/ doc \in LeafDocs

MaxBatchIndex == 2

Member(name, type, text) == [name |-> name, type |-> type, text |-> text]

TypeInt == C_arrValTypeStr[VAL_Int + 1]
TypeString == C_arrValTypeStr[VAL_String + 1]
TypeDouble == C_arrValTypeStr[VAL_Double + 1]
TypeBool == <<"b", "o", "o", "l">>

\* The type attribute and the text of the member nodes.
TypedTexts ==
  {<<TypeInt, <<"1">> >>, <<TypeInt, <<"0", "1">> >>,
   <<TypeDouble, <<"n", "a", "n">> >>, <<TypeBool, <<"1">> >>, <<NULL, <<"1">> >>}

MemberNodes ==
  {Member(n, tt[1], tt[2]) : n \in {<<"a">>}, tt \in TypedTexts}
    \cup {Member(<<"b">>, TypeString, <<"1">>),
          Member(<<"z">>, TypeInt, <<"1">>), Member(NULL, TypeInt, <<"1">>)}

\* The "index" attribute of the batch nodes, and the indices they stand for.
BatchIndexAttrs == {NULL} \cup {<<DigitChars[k + 1]>> : k \in 0..MaxBatchIndex}

BatchIndices == {U32(k) : k \in 0..MaxBatchIndex}

\* The schemas the batches are ingested into.
StoreDocs ==
  {Doc(<<Node(<<"1">>, <<"a">>, FALSE, <<Node(<<"1">>, <<"b">>, FALSE, <<>>)>>)>>)}

\* A schema in which two items carry the same name.
DupDocs ==
  {Doc(<<Node(<<"1">>, <<"a">>, FALSE, <<Node(<<"1">>, <<"a">>, FALSE, <<>>)>>)>>)}

\* A schema in which the index of an item is not its place among its
\* siblings.
SkewDocs ==
  {Doc(<<Node(<<"2">>, <<"a">>, FALSE, <<Node(<<"1">>, <<"b">>, FALSE, <<>>)>>)>>)}

----------------------------------------------------------------------------
(* Operations. *)

InitCommon ==
  /\ long_bits \in {32, 64}
  /\ pc = "new"
  /\ call = "xmlTree"
  /\ ret = ERR_None
  /\ s_rootItem = RootItem
  /\ set_batchIndex = {}
  /\ batch_index = Zero(UINT32_NIBBLES)
  /\ push_ret = ERR_None
  /\ n_batchIndex = Zero(UINT32_NIBBLES)
  /\ okBatches = {}

build_tree_fromXmlFile ==
  /\ pc = "new"
  /\ LET r == _make_itemTree(xml_name, s_rootItem, 0)
     IN  /\ s_rootItem' = r.item
         /\ ret' = IF r.crash THEN ret ELSE r.ret
         /\ pc' = IF r.crash THEN "crashed" ELSE IF r.ret = ERR_None THEN "ready" ELSE "failed"
  /\ call' = "build_tree_fromXmlFile"
  /\ UNCHANGED <<long_bits, xml_name, set_batchIndex, batch_index, push_ret,
                 n_batchIndex, okBatches>>

\* add_batch_fromXmlFile, lines 253-261: the call, up to the first batch node.
add_batch_fromXmlFile ==
  /\ pc = "ready"
  /\ pc' = "batch"
  /\ call' = "add_batch_fromXmlFile"
  /\ ret' = ERR_None
  /\ batch_index' = Zero(UINT32_NIBBLES)
  /\ push_ret' = ERR_None
  /\ n_batchIndex' = Zero(UINT32_NIBBLES)
  /\ UNCHANGED <<long_bits, xml_name, s_rootItem, set_batchIndex, okBatches>>

\* Lines 262-266: there is a next batch node; _push_memberVector is called
\* on its first child.
add_batch_nextBatch(attr) ==
  /\ pc = "batch"
  /\ pc' = "member"
  /\ batch_index' = _get_batchIndex(attr)
  /\ UNCHANGED <<long_bits, xml_name, call, ret, s_rootItem, set_batchIndex, push_ret,
                 n_batchIndex, okBatches>>

\* _push_memberVector on a member node that is not null: it stores the value
\* and goes on to the next sibling, or returns an error through every caller
\* up to line 266, where the loop breaks and add_batch_fromXmlFile returns
\* (batch_index goes out of scope).
add_batch_member(node) ==
  /\ pc = "member"
  /\ \E o \in _push_memberVector(s_rootItem, node, batch_index) :
       LET rec == add_batch_record(o.ret, set_batchIndex, batch_index)
       IN  /\ s_rootItem' = o.root
           /\ IF o.ret = ERR_None
                THEN pc' = "member" /\ UNCHANGED <<ret, set_batchIndex, push_ret, batch_index>>
                ELSE /\ pc' = IF rec.break THEN "ready" ELSE "batch"
                     /\ push_ret' = o.ret
                     /\ ret' = rec.ret
                     /\ set_batchIndex' = rec.set_batchIndex
                     /\ batch_index' = Zero(UINT32_NIBBLES)
  /\ UNCHANGED <<long_bits, xml_name, call, n_batchIndex, okBatches>>

\* _push_memberVector on the null node after the last member (line 582): it
\* returns ERR_None, and line 270 records the batch; batch_index goes out of
\* scope.
add_batch_endBatch ==
  /\ pc = "member"
  /\ LET rec == add_batch_record(ERR_None, set_batchIndex, batch_index)
     IN  /\ pc' = IF rec.break THEN "ready" ELSE "batch"
         /\ ret' = rec.ret
         /\ set_batchIndex' = rec.set_batchIndex
  /\ okBatches' = okBatches \cup {batch_index}
  /\ push_ret' = ERR_None
  /\ batch_index' = Zero(UINT32_NIBBLES)
  /\ UNCHANGED <<long_bits, xml_name, call, s_rootItem, n_batchIndex>>

\* Lines 262, 272-281: there is no next batch node; ret is returned.
add_batch_return ==
  /\ pc = "batch"
  /\ pc' = "ready"
  /\ UNCHANGED <<long_bits, xml_name, call, ret, s_rootItem, set_batchIndex, batch_index,
                 push_ret, n_batchIndex, okBatches>>

delete_oneBatch(index) ==
  /\ pc = "ready"
  /\ LET r == delete_oneBatch_result(s_rootItem, set_batchIndex, index)
     IN  /\ ret' = r.ret
         /\ s_rootItem' = r.root
         /\ set_batchIndex' = r.set_batchIndex
         /\ okBatches' = IF r.ret = 0 THEN okBatches \ {index} ELSE okBatches
  /\ call' = "delete_oneBatch"
  /\ n_batchIndex' = index
  /\ batch_index' = Zero(UINT32_NIBBLES)
  /\ push_ret' = ERR_None
  /\ UNCHANGED <<long_bits, xml_name, pc>>

\* The store: the numerals of its documents fit a long of either width.
Init == InitCommon /\ long_bits = 64 /\ xml_name \in StoreDocs

Next ==
  \/ build_tree_fromXmlFile
  \/ add_batch_fromXmlFile
  \/ \E attr \in BatchIndexAttrs : add_batch_nextBatch(attr)
  \/ \E node \in MemberNodes : add_batch_member(node)
  \/ add_batch_endBatch
  \/ add_batch_return
  \/ \E index \in BatchIndices : delete_oneBatch(index)

Spec == Init /\ [][Next]_vars

\* The store over a schema with a repeated name.
InitDup == InitCommon /\ long_bits = 64 /\ xml_name \in DupDocs

SpecDup == InitDup /\ [][Next]_vars

\* The store over a schema whose only top-level item has index 2.
InitSkew == InitCommon /\ long_bits = 64 /\ xml_name \in SkewDocs

SpecSkew == InitSkew /\ [][Next]_vars

\* The construction of the schema alone, over the schema documents.
InitBuild == InitCommon /\ SchemaDocs(xml_name)

NextBuild == build_tree_fromXmlFile

SpecBuild == InitBuild /\ [][NextBuild]_vars

----------------------------------------------------------------------------
(* Claims about the store. *)

\* What the value lookup of item+batch gives on the item at path p of root.
value_of(root, p, b) == _get_memberVal(ItemAt(root, p), b, NoVal)

AllItems == ItemPaths(s_rootItem)

MembersOf(root, p) == ItemAt(root, p).l_member

\* The step is a call of delete_oneBatch / the handling of the member node /
\* a step of add_batch_fromXmlFile.
IsDeleteStep == pc = "ready" /\ pc' = "ready" /\ call' = "delete_oneBatch"

IsMemberStep(node) == add_batch_member(node)

IsIngestStep == pc \in {"batch", "member"} \/ (pc = "ready" /\ pc' = "batch")

\* C1: delete_oneBatch on a known batch b changes the lookup result of no
\* item for any batch index other than b.
C1_DeleteRemovesOnlyB ==
  [][(IsDeleteStep /\ n_batchIndex' \in set_batchIndex) =>
       \A p \in AllItems : \A b \in BatchIndices \ {n_batchIndex'} :
         value_of(s_rootItem', p, b) = value_of(s_rootItem, p, b)]_vars

\* The name resolves to an item that holds a value for batch_index.
HoldsBatch(name) ==
  /\ name # NULL
  /\ _search_item_byName(s_rootItem, name) # NULL_ITEM
  /\ value_of(s_rootItem, _search_item_byName(s_rootItem, name), batch_index).ret = ERR_None

\* C3: in every state the batch-index sets of the members of an item are
\* pairwise disjoint, and the step of a member node whose item already holds
\* a value for the batch index stores nothing and ends the ingestion with an
\* error.
C3_Partition ==
  /\ [](\A p \in AllItems :
          \A i, j \in 1..Len(MembersOf(s_rootItem, p)) :
            i # j => MembersOf(s_rootItem, p)[i].set_batchIndex
                       \cap MembersOf(s_rootItem, p)[j].set_batchIndex = {})
  /\ [][(pc = "member" /\ ~IsZero(batch_index)) =>
          \/ (s_rootItem' = s_rootItem /\ ret' # ERR_None /\ pc' = "ready")
          \/ \A name \in {m.name : m \in MemberNodes} :
               HoldsBatch(name) =>
                 \A node \in {m \in MemberNodes : m.name = name} : ~IsMemberStep(node)]_vars

\* A member node was rejected because its item already held the batch index.
C3_Witness ==
  /\ call = "add_batch_fromXmlFile" /\ pc = "ready" /\ ret # ERR_None
  /\ push_ret = ERR_UsedIndex
  /\ \E p \in AllItems : Len(MembersOf(s_rootItem, p)) >= 2

\* C4: no item has two members holding equal values (same tag, same
\* payload) of type int, string or double.
C4_NoEqualValues ==
  \A p \in AllItems :
    \A i, j \in 1..Len(MembersOf(s_rootItem, p)) :
      (i # j /\ MembersOf(s_rootItem, p)[i].s_val.e_type \in {VAL_Int, VAL_String, VAL_Double})
        => MembersOf(s_rootItem, p)[i].s_val # MembersOf(s_rootItem, p)[j].s_val

\* C5: a member node that names no item of the schema makes the ingestion
\* return ERR_IllegalId and leaves the set of known batches as it was.
C5_UnknownNameIllegalId ==
  [][\A node \in MemberNodes :
       (/\ IsMemberStep(node)
        /\ ~IsZero(batch_index)
        /\ node.name # NULL
        /\ _search_item_byName(s_rootItem, node.name) = NULL_ITEM)
       => (pc' = "ready" /\ ret' = ERR_IllegalId /\ set_batchIndex' = set_batchIndex)]_vars

\* C7: after delete_oneBatch(b) succeeds no item has a value for b, b is not
\* a known batch, and the members that held only b are gone from the lists.
C7_DeletionReclaims ==
  [][(IsDeleteStep /\ ret' = ERR_None) =>
       /\ n_batchIndex' \notin set_batchIndex'
       /\ \A p \in AllItems :
            /\ value_of(s_rootItem', p, n_batchIndex').ret = ERR_UnregisteredIndex
            /\ \A i \in 1..Len(MembersOf(s_rootItem', p)) :
                 /\ n_batchIndex' \notin MembersOf(s_rootItem', p)[i].set_batchIndex
                 /\ MembersOf(s_rootItem', p)[i].set_batchIndex # {}
            /\ Len(MembersOf(s_rootItem', p)) <=
                 Cardinality({i \in 1..Len(MembersOf(s_rootItem, p)) :
                                MembersOf(s_rootItem, p)[i].set_batchIndex # {n_batchIndex'}})]_vars

\* A batch was deleted while an item below the root keeps a member of
\* another batch.
C7_Witness ==
  /\ call = "delete_oneBatch" /\ ret = ERR_None /\ pc = "ready"
  /\ n_batchIndex \notin set_batchIndex
  /\ set_batchIndex # {}
  /\ \E p \in AllItems : p # <<>> /\ MembersOf(s_rootItem, p) # <<>>

\* The tag the parsing of a declared type name gives: that of "int",
\* "string" or "double", the None tag for any other name.
ParsedTag(type) ==
  IF type = TypeInt THEN VAL_Int
  ELSE IF type = TypeString THEN VAL_String
  ELSE IF type = TypeDouble THEN VAL_Double
  ELSE VAL_None

\* C8: once a member node (name, type, text) of batch b is stored, the lookup
\* of its item for b gives the value parsed from (type, text), and no later
\* step of an ingestion changes what a lookup that succeeded gives.
C8_LookupReturnsIngested ==
  /\ [][\A node \in MemberNodes :
          (IsMemberStep(node) /\ pc' = "member") =>
            value_of(s_rootItem', _search_item_byName(s_rootItem', node.name), batch_index')
              = [ret |-> ERR_None,
                 s_val |-> ValAssign(NoVal, _set_memberVal(node.text,
                                       [NoVal EXCEPT !.e_type = ParsedTag(node.type)]))]]_vars
  /\ [][IsIngestStep =>
          \A p \in AllItems : \A b \in BatchIndices :
            value_of(s_rootItem, p, b).ret = ERR_None
              => value_of(s_rootItem', p, b) = value_of(s_rootItem, p, b)]_vars

\* C9: the known batches are exactly the indices of the batches whose member
\* nodes all succeeded and that were not deleted since; a failing member
\* node ends the ingestion and leaves the known batches as they were.
C9_KnownBatches ==
  /\ [](set_batchIndex = okBatches)
  /\ [][(pc = "member" /\ push_ret' # ERR_None)
        => (pc' = "ready" /\ ret' # ERR_None /\ set_batchIndex' = set_batchIndex)]_vars

\* A batch failed after one of its members was stored and after another
\* batch had been recorded.
C9_Witness ==
  /\ call = "add_batch_fromXmlFile" /\ pc = "ready" /\ ret # ERR_None
  /\ push_ret # ERR_None
  /\ set_batchIndex # {}
  /\ \E p \in AllItems : \E b \in BatchIndices \ set_batchIndex :
       value_of(s_rootItem, p, b).ret = ERR_None

----------------------------------------------------------------------------
(* What the claims say of a schema document, read off the document alone. *)

\* The attribute is the decimal numeral of a number in 1..C_nMaxItem.
IndexInRange(attr) ==
  /\ attr # NULL
  /\ Len(attr) \in 1..2
  /\ \A i \in 1..Len(attr) : IsDigit(attr[i])
  /\ DecimalNat(attr, 0) \in 1..C_nMaxItem

RECURSIVE DocDepth(_)
\* The number of levels of item nodes under a list of siblings.
DocDepth(kids) ==
  IF kids = <<>> THEN 0
  ELSE 1 + CHOOSE d \in 0..MaxDepth + 1 :
             /\ \E i \in 1..Len(kids) : DocDepth(kids[i].kids) = d
             /\ \A i \in 1..Len(kids) : DocDepth(kids[i].kids) <= d

\* Some sibling of the list has a missing, zero or out-of-range index, or
\* the index of an earlier sibling.
BadIndexAmong(kids) ==
  \E i \in 1..Len(kids) :
    \/ ~IndexInRange(kids[i].index)
    \/ \E j \in 1..(i - 1) :
         /\ IndexInRange(kids[j].index)
         /\ DecimalNat(kids[j].index, 0) = DecimalNat(kids[i].index, 0)

RECURSIVE HasBadIndex(_)
HasBadIndex(kids) ==
  BadIndexAmong(kids) \/ \E i \in 1..Len(kids) : HasBadIndex(kids[i].kids)

RECURSIVE AllNamed(_)
AllNamed(kids) ==
  \A i \in 1..Len(kids) : kids[i].name # NULL /\ AllNamed(kids[i].kids)

NonRootItems == ItemPaths(s_rootItem) \ {<<>>}

----------------------------------------------------------------------------
(* C2 *)

\* C2: in a successfully built schema, looking a non-root Item up by its
\* packed id reaches that very Item, and get_itemName of the id is its name.
C2_IdRoundTrip ==
  pc = "ready" =>
    \A p \in NonRootItems :
      /\ _search_item_byId(s_rootItem, ItemAt(s_rootItem, p).n_id) = p
      /\ get_itemName(s_rootItem, ItemAt(s_rootItem, p).n_id) = ItemAt(s_rootItem, p).str_name

----------------------------------------------------------------------------
(* C6 *)

\* C6: a schema of at most C_nMaxLayer levels whose item nodes all have a
\* legal, sibling-unique index and a name builds with ERR_None, and
\* ERR_OverLayer is returned only for a schema of more levels.
C6_EightLevelsBuild ==
  pc # "new" =>
    /\ (/\ ~HasBadIndex(xml_name[1].kids)
        /\ AllNamed(xml_name[1].kids)
        /\ DocDepth(xml_name[1].kids) \in 1..C_nMaxLayer) => (pc = "ready" /\ ret = ERR_None)
    /\ (pc = "failed" /\ ret = ERR_OverLayer) => DocDepth(xml_name[1].kids) > C_nMaxLayer

----------------------------------------------------------------------------
(* C10 *)

\* C10: whenever some item node, at any depth and any position, has a
\* missing, zero, out-of-range or sibling-duplicated index attribute, the
\* error code schema construction returns is not zero.
C10_BadIndexFails ==
  (pc \in {"ready", "failed"} /\ HasBadIndex(xml_name[1].kids)) => ret # ERR_None

----------------------------------------------------------------------------
(* C11 *)

\* Two siblings of the list carry the same index, a number of 1..C_nMaxItem.
DupIndexAmong(kids) ==
  \E i, j \in 1..Len(kids) :
    /\ i < j
    /\ IndexInRange(kids[i].index) /\ IndexInRange(kids[j].index)
    /\ DecimalNat(kids[i].index, 0) = DecimalNat(kids[j].index, 0)

RECURSIVE HasDupIndex(_)
HasDupIndex(kids) ==
  DupIndexAmong(kids) \/ \E i \in 1..Len(kids) : HasDupIndex(kids[i].kids)

RECURSIVE AllInRange(_)
AllInRange(kids) ==
  \A i \in 1..Len(kids) : IndexInRange(kids[i].index) /\ AllInRange(kids[i].kids)

RECURSIVE NoDupRegistered(_, _, _)
\* No child of item, the Item of the parent of the siblings kids at layer
\* n_layer, has an index that two of the siblings carry; the same below
\* every child, taken with the first sibling of its index.
NoDupRegistered(kids, item, n_layer) ==
  /\ \A i, j \in 1..Len(kids) :
       (i < j /\ DecimalNat(kids[i].index, 0) = DecimalNat(kids[j].index, 0)) =>
         \A c \in 1..Len(item.v_childItem) :
           item.v_childItem[c].n_id[n_layer + 1] # DecimalNat(kids[i].index, 0)
  /\ \A c \in 1..Len(item.v_childItem) : \A i \in 1..Len(kids) :
       (/\ DecimalNat(kids[i].index, 0) = item.v_childItem[c].n_id[n_layer + 1]
        /\ \A j \in 1..(i - 1) : DecimalNat(kids[j].index, 0) # DecimalNat(kids[i].index, 0))
       => NoDupRegistered(kids[i].kids, item.v_childItem[c], n_layer + 1)

\* C11: a schema document in which two sibling item nodes carry the same
\* index (every index being in range and every node named) fails to build
\* with ERR_IllegalIndex or ERR_UsedIndex, and neither of the two siblings
\* is a child Item of their parent afterwards.
C11_DuplicateSiblingsRejected ==
  (/\ pc # "new"
   /\ AllInRange(xml_name[1].kids) /\ AllNamed(xml_name[1].kids)
   /\ HasDupIndex(xml_name[1].kids)
   /\ DocDepth(xml_name[1].kids) < C_nMaxLayer)
  => /\ pc = "failed"
     /\ ret \in {ERR_IllegalIndex, ERR_UsedIndex}
     /\ NoDupRegistered(xml_name[1].kids, s_rootItem, 0)

----------------------------------------------------------------------------
(* C12 *)

RECURSIVE PreOrder(_)
RECURSIVE PreOrderFrom(_, _)
\* The pointers to the items under item in depth-first pre-order, item
\* first; PreOrderFrom: those below the k-th child of item and the later ones.
PreOrderFrom(item, k) ==
  IF k > Len(item.v_childItem) THEN <<>>
  ELSE LET sub == PreOrder(item.v_childItem[k])
       IN  [i \in 1..Len(sub) |-> <<k>> \o sub[i]] \o PreOrderFrom(item, k + 1)

PreOrder(item) == <<<<>>>> \o PreOrderFrom(item, 1)

\* The first item of root in pre-order that carries the name.
FirstNamed(root, name) ==
  LET po == PreOrder(root)
      hits == {i \in 1..Len(po) : ItemAt(root, po[i]).str_name = name}
  IN  po[CHOOSE i \in hits : \A j \in hits : i <= j]

ItemNames(root) == {ItemAt(root, p).str_name : p \in ItemPaths(root)}

\* The maps a caller passes to get_oneBatchValue: an empty one, and one
\* that has an entry left from an earlier use.
StaleVal == [NoVal EXCEPT !.e_type = VAL_String, !.val_string = <<"x", NUL>>, !.n_memLen = 2]

OutputMaps == {<<>>, [k \in {<<"a">>} |-> StaleVal]}

\* C12 as stated: get_oneBatchValue(b) returns ERR_UnregisteredIndex when b
\* is not a known batch; otherwise its result holds exactly one (item name,
\* value) entry per Item of the schema, root included, the value being the
\* Item's value for b, None-tagged when the Item holds none.
C12_OneEntryPerItem ==
  pc = "ready" =>
    \A b \in BatchIndices : \A m0 \in OutputMaps :
      LET r == get_oneBatchValue(s_rootItem, set_batchIndex, b, m0)
      IN  IF b \notin set_batchIndex THEN r.ret = ERR_UnregisteredIndex
          ELSE /\ r.ret = ERR_None
               /\ Cardinality(DOMAIN r.m_batch) = Cardinality(AllItems)
               /\ \A p \in AllItems :
                    /\ ItemAt(s_rootItem, p).str_name \in DOMAIN r.m_batch
                    /\ r.m_batch[ItemAt(s_rootItem, p).str_name] = value_of(s_rootItem, p, b).s_val

\* C12, amended: get_oneBatchValue(b) returns ERR_UnregisteredIndex and
\* leaves the map alone when b is not a known batch; otherwise, called with
\* an empty map, its result holds exactly one entry per distinct item name
\* (the empty name of the root included), the value being that of the first
\* item of that name in pre-order for b, None-tagged when it holds none.
C12_OneEntryPerName ==
  pc = "ready" =>
    \A b \in BatchIndices :
      LET r == get_oneBatchValue(s_rootItem, set_batchIndex, b, <<>>)
      IN  IF b \notin set_batchIndex THEN r.ret = ERR_UnregisteredIndex /\ r.m_batch = <<>>
          ELSE /\ r.ret = ERR_None
               /\ DOMAIN r.m_batch = ItemNames(s_rootItem)
               /\ \A name \in ItemNames(s_rootItem) :
                    r.m_batch[name] = value_of(s_rootItem, FirstNamed(s_rootItem, name), b).s_val

\* A known batch for which the first of two items of one name holds a value
\* and another item holds none.
C12_Witness ==
  /\ pc = "ready"
  /\ \E b \in set_batchIndex : \E p, q \in AllItems :
       /\ p # q
       /\ ItemAt(s_rootItem, p).str_name = ItemAt(s_rootItem, q).str_name
       /\ FirstNamed(s_rootItem, ItemAt(s_rootItem, p).str_name) = p
       /\ value_of(s_rootItem, p, b).ret = ERR_None
       /\ value_of(s_rootItem, q, b).ret = ERR_UnregisteredIndex
       /\ get_oneBatchValue(s_rootItem, set_batchIndex, b, <<>>).m_batch[<<>>].e_type = VAL_None

----------------------------------------------------------------------------
(* C13 *)

\* The names get_oneItemValue is called with: those of the member nodes and
\* the empty one.
QueryNames == ({m.name : m \in MemberNodes} \ {NULL}) \cup {<<>>}

\* C13: get_oneItemValue(name) returns ERR_UnregisteredItem when no item
\* below the root has that name; otherwise, called with an empty map, it
\* returns exactly the (batch index, value) pairs the resolved item holds:
\* one entry for each batch index of the set of each member, mapped to the
\* value of that member.
C13_ItemValues ==
  pc = "ready" =>
    \A name \in QueryNames :
      LET r == get_oneItemValue(s_rootItem, name, <<>>)
          l_member == MembersOf(s_rootItem, _search_item_byName(s_rootItem, name))
      IN  IF \A p \in NonRootItems : ItemAt(s_rootItem, p).str_name # name
            THEN r.ret = ERR_UnregisteredItem /\ r.m_item = <<>>
          ELSE /\ r.ret = ERR_None
               /\ DOMAIN r.m_item = UNION {l_member[i].set_batchIndex : i \in 1..Len(l_member)}
               /\ \A i \in 1..Len(l_member) : \A b \in l_member[i].set_batchIndex :
                    r.m_item[b] = ValAssign(NoVal, l_member[i].s_val)

\* An item holds one value for two batches, and the query of its name
\* returns that value twice.
C13_Witness ==
  /\ pc = "ready"
  /\ \E name \in QueryNames :
       LET r == get_oneItemValue(s_rootItem, name, <<>>)
       IN  /\ r.ret = ERR_None
           /\ \E b, c \in DOMAIN r.m_item : b # c /\ r.m_item[b] = r.m_item[c]
  /\ \E name \in QueryNames : get_oneItemValue(s_rootItem, name, <<>>).ret = ERR_UnregisteredItem

----------------------------------------------------------------------------
(* C14 *)

\* C14: delete_oneBatch(b) with b not a known batch returns
\* ERR_UnregisteredIndex and changes neither the tree nor the set of known
\* batches.
C14_DeleteUnknown ==
  [][(IsDeleteStep /\ n_batchIndex' \notin set_batchIndex) =>
       /\ ret' = ERR_UnregisteredIndex
       /\ s_rootItem' = s_rootItem
       /\ set_batchIndex' = set_batchIndex]_vars

\* delete_oneBatch was refused for a batch that an item holds a value for
\* (its ingestion failed after that value was stored).
C14_Witness ==
  /\ call = "delete_oneBatch" /\ pc = "ready" /\ ret = ERR_UnregisteredIndex
  /\ n_batchIndex \notin set_batchIndex
  /\ \E p \in AllItems : value_of(s_rootItem, p, n_batchIndex).ret = ERR_None

----------------------------------------------------------------------------
(* C15 *)

\* C15: in every state, no member of the list of any item has an empty set
\* of batch indices.
C15_NoEmptyIndexSet ==
  \A p \in AllItems :
    \A i \in 1..Len(MembersOf(s_rootItem, p)) :
      MembersOf(s_rootItem, p)[i].set_batchIndex # {}

\* A batch was deleted, no item holds a value for it any more, and an item
\* keeps a member of another batch, of which the ingestion failed.
C15_Witness ==
  /\ call = "delete_oneBatch" /\ pc = "ready" /\ ret = ERR_None
  /\ \A p \in AllItems : value_of(s_rootItem, p, n_batchIndex).ret = ERR_UnregisteredIndex
  /\ \E p \in AllItems : \E i \in 1..Len(MembersOf(s_rootItem, p)) :
       MembersOf(s_rootItem, p)[i].set_batchIndex \cap set_batchIndex = {}

----------------------------------------------------------------------------
(* C16 *)

\* C16: no value held by an item carries a tag other than None, Int, Double
\* and String: the parsing of the type name of a member node gives the tag
\* of "int", "string" or "double", and the None tag for every other name.
C16_TagsOfFour ==
  \A p \in AllItems :
    \A i \in 1..Len(MembersOf(s_rootItem, p)) :
      MembersOf(s_rootItem, p)[i].s_val.e_type \in {VAL_None, VAL_Int, VAL_Double, VAL_String}

----------------------------------------------------------------------------
(* C17 *)

\* C17: batch index 0 is never a known batch, and the ingestion of a batch
\* node whose index is 0 or missing ends there with ERR_IllegalIndex,
\* whatever its member nodes, none included, leaving the known batches as
\* they were.
C17_ZeroNeverKnown ==
  /\ [](Zero(UINT32_NIBBLES) \notin set_batchIndex)
  /\ [][(pc = "member" /\ IsZero(batch_index)) =>
          (pc' = "ready" /\ ret' = ERR_IllegalIndex /\ set_batchIndex' = set_batchIndex)]_vars

----------------------------------------------------------------------------
(* C18 *)

\* The parent of the item at p: the item one step up.
ParentOf(p) == SubSeq(p, 1, Len(p) - 1)

\* C18: _get_parentId is the inverse of the packing of the ids: of the id
\* of an item below the root it gives the id of the parent of that item, so
\* it gives 0 exactly for the ids of the root and of the items of the top
\* level.
C18_ParentIdInverse ==
  pc # "new" =>
    /\ _get_parentId(s_rootItem.n_id) = Zero(UINT32_NIBBLES)
    /\ \A p \in NonRootItems :
         /\ _get_parentId(ItemAt(s_rootItem, p).n_id) = ItemAt(s_rootItem, ParentOf(p)).n_id
         /\ IsZero(_get_parentId(ItemAt(s_rootItem, p).n_id)) <=> Len(p) = 1

----------------------------------------------------------------------------
(* C19 *)

\* C19: the step of a member node whose name resolves to an item of which
\* the id of the parent is not found by _search_item_byId ends the
\* ingestion with ERR_IllegalId and stores nothing.
C19_UnresolvableParentIllegalId ==
  [][\A node \in MemberNodes :
       (/\ IsMemberStep(node)
        /\ ~IsZero(batch_index)
        /\ node.name # NULL
        /\ _search_item_byName(s_rootItem, node.name) # NULL_ITEM
        /\ _search_item_byId(s_rootItem,
             ItemAt(s_rootItem, ParentOf(_search_item_byName(s_rootItem, node.name))).n_id) = NULL_ITEM)
       => (pc' = "ready" /\ ret' = ERR_IllegalId /\ s_rootItem' = s_rootItem)]_vars

----------------------------------------------------------------------------
(* C20 *)

RECURSIVE HasMissingAttr(_)
\* Some item node lacks its index or its name attribute.
HasMissingAttr(kids) ==
  \E i \in 1..Len(kids) :
    kids[i].index = NULL \/ kids[i].name = NULL \/ HasMissingAttr(kids[i].kids)

RECURSIVE HasMissingIndex(_)
HasMissingIndex(kids) ==
  \E i \in 1..Len(kids) : kids[i].index = NULL \/ HasMissingIndex(kids[i].kids)

RECURSIVE PresentIndicesLegal(_)
\* Every index attribute there is is in range and differs from those of the
\* siblings.
PresentIndicesLegal(kids) ==
  /\ ~DupIndexAmong(kids)
  /\ \A i \in 1..Len(kids) :
       /\ kids[i].index # NULL => IndexInRange(kids[i].index)
       /\ PresentIndicesLegal(kids[i].kids)

\* C20: a schema document in which an item node, at any position, lacks its
\* index or its name attribute (the document having no other defect) makes
\* the construction return ERR_NoXmlAttr; a missing name gives an error
\* code, the construction does not crash.
C20_MissingAttrNoXmlAttr ==
  (/\ pc # "new"
   /\ HasMissingAttr(xml_name[1].kids)
   /\ PresentIndicesLegal(xml_name[1].kids)
   /\ DocDepth(xml_name[1].kids) < C_nMaxLayer)
  => (pc = "failed" /\ ret = ERR_NoXmlAttr)

----------------------------------------------------------------------------
(* C21 *)

RECURSIVE HasWideLevel(_)
\* Some node has more than C_nMaxItem item children.
HasWideLevel(kids) ==
  Len(kids) > C_nMaxItem \/ \E i \in 1..Len(kids) : HasWideLevel(kids[i].kids)

\* C21: a schema document in which some node, the root or a nested one, has
\* more than C_nMaxItem item children fails to build with ERR_OverItem.
C21_WideLevelOverItem ==
  (pc # "new" /\ HasWideLevel(xml_name[1].kids)) => (pc = "failed" /\ ret = ERR_OverItem)

----------------------------------------------------------------------------
(* C22 *)

RECURSIVE Deeper(_, _)
\* The siblings and what is below them make more than n levels.
Deeper(kids, n) ==
  kids # <<>> /\ (n = 0 \/ \E i \in 1..Len(kids) : Deeper(kids[i].kids, n - 1))

\* The item nodes are all named, with indices in range that differ among
\* siblings, no more than C_nMaxItem at a level, on fewer than C_nMaxLayer
\* levels.
WellFormedItems(kids) ==
  /\ AllInRange(kids) /\ AllNamed(kids)
  /\ ~HasDupIndex(kids) /\ ~HasWideLevel(kids)
  /\ ~Deeper(kids, C_nMaxLayer - 1)

\* C22: in a document whose item nodes are well formed, every item node
\* without item children is accepted as a leaf, whether it has no children
\* at all or only children that are not item nodes, and the construction
\* succeeds; a root without item nodes makes it fail with ERR_NoXmlNode.
C22_LeafTermination ==
  (pc # "new" /\ WellFormedItems(xml_name[1].kids)) =>
    IF xml_name[1].kids = <<>> THEN pc = "failed" /\ ret = ERR_NoXmlNode
    ELSE pc = "ready" /\ ret = ERR_None

----------------------------------------------------------------------------
(* C23 *)

\* The places in po, the pre-order of the items of root, of the items below
\* the root that carry the name.
NamedPlaces(root, po, name) ==
  {i \in 1..Len(po) : po[i] # <<>> /\ ItemAt(root, po[i]).str_name = name}

\* C23: _search_item_byName from the root returns the first item below the
\* root that carries exactly the name, in depth-first pre-order (an item
\* before the items below it, these before its later siblings); it never
\* returns the root, and it returns NULL exactly when no item below the
\* root carries the name.
C23_FirstInPreOrder ==
  pc # "new" =>
    LET po == PreOrder(s_rootItem)
    IN  \A name \in QueryNames :
          LET found == _search_item_byName(s_rootItem, name)
              places == NamedPlaces(s_rootItem, po, name)
          IN  /\ found # <<>>
              /\ IF places = {} THEN found = NULL_ITEM
                 ELSE found = po[CHOOSE i \in places : \A j \in places : i <= j]

\* A name is carried by an item of the second level below the first
\* top-level item and by the second top-level item, and the search returns
\* the former; the search of another name returns NULL.
C23_Witness ==
  /\ pc = "ready"
  /\ \E name \in QueryNames :
       /\ {<<1, 1>>, <<2>>} \subseteq {p \in NonRootItems : ItemAt(s_rootItem, p).str_name = name}
       /\ ItemAt(s_rootItem, <<1>>).str_name # name
       /\ _search_item_byName(s_rootItem, name) = <<1, 1>>
  /\ \E name \in QueryNames : _search_item_byName(s_rootItem, name) = NULL_ITEM

----------------------------------------------------------------------------
(* C24 *)

\* The most member nodes a batch that succeeds can have: a second member
\* node of one item is refused with ERR_UsedIndex.
MaxBatchLen(root) == Cardinality(ItemPaths(root)) - 1

RECURSIVE BatchTrees(_, _, _)
\* The trees that the member nodes of a batch of index b, at most n of them
\* and all of them stored, can make of root.
BatchTrees(root, b, n) ==
  IF n = 0 THEN {root}
  ELSE LET before == BatchTrees(root, b, n - 1)
       IN  before \cup
             UNION {{o.root : o \in {q \in _push_memberVector(r, node, b) : q.ret = ERR_None}} :
                      r \in before, node \in MemberNodes}

\* No member of any item of root holds b.
NotHeld(root, b) ==
  \A p \in ItemPaths(root) : value_of(root, p, b).ret = ERR_UnregisteredIndex

\* C24: between calls, when b is not a known batch and no member holds b,
\* an ingestion of one batch of index b that succeeds, followed by
\* delete_oneBatch(b), leaves the member list of every item (values, order
\* and sets) and the set of known batches exactly as they were.
C24_IngestDeleteRoundTrip ==
  pc = "ready" =>
    \A b \in BatchIndices :
      (b \notin set_batchIndex /\ NotHeld(s_rootItem, b)) =>
        \A tree \in BatchTrees(s_rootItem, b, MaxBatchLen(s_rootItem)) :
          LET rec == add_batch_record(ERR_None, set_batchIndex, b)
              del == delete_oneBatch_result(tree, rec.set_batchIndex, b)
          IN  /\ rec.ret = ERR_None
              /\ del.ret = ERR_None
              /\ del.root = s_rootItem
              /\ del.set_batchIndex = set_batchIndex

\* Between calls an item holds a member, b is neither known nor held, and
\* a batch of index b can be stored both into the member there is and as a
\* new member after it.
C24_Witness ==
  /\ pc = "ready"
  /\ \E b \in BatchIndices :
       /\ b \notin set_batchIndex /\ NotHeld(s_rootItem, b)
       /\ \E t1, t2 \in BatchTrees(s_rootItem, b, MaxBatchLen(s_rootItem)) : \E p \in AllItems :
            /\ MembersOf(s_rootItem, p) # <<>>
            /\ Len(MembersOf(t1, p)) = Len(MembersOf(s_rootItem, p))
            /\ MembersOf(t1, p) # MembersOf(s_rootItem, p)
            /\ Len(MembersOf(t2, p)) > Len(MembersOf(s_rootItem, p))

----------------------------------------------------------------------------
(* C25 *)

\* The batch indices the members of the items of root hold.
HeldIndices(root) ==
  UNION {UNION {MembersOf(root, p)[i].set_batchIndex : i \in 1..Len(MembersOf(root, p))} :
           p \in ItemPaths(root)}

\* A member node was refused: the call of add_batch_fromXmlFile returns an
\* error.
IsFailingStep == pc = "member" /\ pc' = "ready" /\ push_ret' # ERR_None

\* C25: as long as no call of add_batch_fromXmlFile returns an error, every
\* batch index held by a member of an item is a known batch, or the index
\* of the batch being ingested: no step other than the refusal of a member
\* node leaves a state in which this holds for one in which it does not.
\* Between calls the held indices are then all known.
C25_HeldIsKnown ==
  /\ [](pc = "new" => HeldIndices(s_rootItem) = {})
  /\ [][(/\ HeldIndices(s_rootItem) \subseteq
              set_batchIndex \cup (IF pc = "member" THEN {batch_index} ELSE {})
         /\ ~IsFailingStep)
        => HeldIndices(s_rootItem') \subseteq
             set_batchIndex' \cup (IF pc' = "member" THEN {batch_index'} ELSE {})]_vars

\* A batch was deleted with success while the members of the items hold
\* the indices of two batches that are still known.
C25_Witness ==
  /\ pc = "ready" /\ call = "delete_oneBatch" /\ ret = ERR_None
  /\ Cardinality(HeldIndices(s_rootItem)) >= 2
  /\ HeldIndices(s_rootItem) \subseteq set_batchIndex

====
